---- MODULE Spec2Model ----
(***************************************************************************)
(* Playlist persistence of tori: the M3U text format (Song::serialize,     *)
(* Song::parse_m3u, Song::add_to_playlist), the playlist store operations  *)
(* of m3u::playlist_management (create_playlist, delete_song, rename_song, *)
(* swap_song, rename_playlist, delete_playlist), the loading of the song   *)
(* list (SongsPane::from_playlist_named) and the ingestion of sources      *)
(* (add_song, add_song_recursively) in its two revisions.                  *)
(*                                                                         *)
(* Text is a sequence of one-character strings, so that formatting and     *)
(* parsing are computed character by character as the code does.           *)
(***************************************************************************)
EXTENDS Integers, Sequences, FiniteSets, TLC

VARIABLES
    fs,        \* the filesystem: path -> file content, or NoFile
    last,      \* the last store operation: its arguments, result and the filesystem before it
    appended,  \* per playlist name: the songs add_to_playlist has appended, in call order
    th,        \* per background thread of add_song: its position in add_to_playlist and its locals
    rt,        \* the round trip of one Song: the Song, and the parse of its serialized form
    sc,        \* the create / append / delete scenario: its position, playlist and song
    renames,   \* the number of rename_song calls made so far
    ig,        \* one add_song invocation: caller, traversal stack, probes, event channel
    pane       \* the songs pane: its songs, the filtered view, the filter, the last key

vars == <<fs, last, appended, th, rt, sc, renames, ig, pane>>

----------------------------------------------------------------------------
(* Bounds of the model *)

\* at most this many add_to_playlist calls per playlist file
MaxAppends == 2

\* song indices passed to delete_song / swap_song / rename_song range over 0..MaxIndex
MaxIndex == 3

\* at most this many rename_song calls
MaxRenames == 1

----------------------------------------------------------------------------
(* Text *)

NL == "\n"
SP == " "

\* the content of a path at which there is no file (no file holds this "byte")
NoFile == <<"ENOENT">>

Digits == <<"0", "1", "2", "3", "4", "5", "6", "7", "8", "9">>

IsDigit(c) == \E i \in 1..10 : Digits[i] = c

DigitVal(c) == (CHOOSE i \in 1..10 : Digits[i] = c) - 1

\* s[from..] with a 0-based byte offset, as Rust's &content[from..]
From(s, from) == SubSeq(s, from + 1, Len(s))

\* s[..to] with a 0-based byte offset, as Rust's &content[..to]
Upto(s, to) == SubSeq(s, 1, to)

\* str::starts_with
StartsWith(s, p) == Len(s) >= Len(p) /\ SubSeq(s, 1, Len(p)) = p

\* str::contains(char)
Contains(s, c) == \E i \in 1..Len(s) : s[i] = c

\* index (1-based) of the first occurrence of c in s at or after i, 0 when there is none
RECURSIVE IndexFrom(_, _, _)
IndexFrom(s, c, i) == IF i > Len(s) THEN 0 ELSE IF s[i] = c THEN i ELSE IndexFrom(s, c, i + 1)

\* index (1-based) of the first occurrence of c in s, 0 when there is none
IndexOf(s, c) == IndexFrom(s, c, 1)

IsWhite(c) == c = SP \/ c = NL

\* str::trim: strips leading and trailing whitespace
RECURSIVE TrimStart(_)
TrimStart(s) == IF s # <<>> /\ IsWhite(Head(s)) THEN TrimStart(Tail(s)) ELSE s

RECURSIVE TrimEnd(_)
TrimEnd(s) == IF s # <<>> /\ IsWhite(s[Len(s)]) THEN TrimEnd(SubSeq(s, 1, Len(s) - 1)) ELSE s

Trim(s) == TrimEnd(TrimStart(s))

\* BufRead::lines: the text split at each newline, the newlines dropped; a final
\* line without a newline is a line, and no empty line follows a final newline
RECURSIVE Lines(_)
Lines(s) ==
    IF s = <<>> THEN <<>>
    ELSE LET k == IndexOf(s, NL)
         IN  IF k = 0 THEN <<s>>
             ELSE <<SubSeq(s, 1, k - 1)>> \o Lines(From(s, k))

\* u64 formatted by "{}": decimal digits, no leading zeros
RECURSIVE ToDec(_)
ToDec(n) == IF n < 10 THEN <<Digits[n + 1]>> ELSE ToDec(n \div 10) \o <<Digits[(n % 10) + 1]>>

RECURSIVE DecVal(_)
DecVal(s) == IF s = <<>> THEN 0 ELSE DecVal(SubSeq(s, 1, Len(s) - 1)) * 10 + DigitVal(s[Len(s)])

AllDigits(s) == \A i \in 1..Len(s) : IsDigit(s[i])

\* str::parse::<f64>() followed by `as u64`: digits with an optional fractional
\* part ("125", "125.5", "125."), truncated toward zero; anything else is Err
ParseF64(s) ==
    LET k == IndexOf(s, ".")
        ip == IF k = 0 THEN s ELSE SubSeq(s, 1, k - 1)
        fp == IF k = 0 THEN <<>> ELSE From(s, k)
    IN  IF ip # <<>> /\ AllDigits(ip) /\ AllDigits(fp)
        THEN [ok |-> TRUE, secs |-> DecVal(ip)]
        ELSE [ok |-> FALSE, secs |-> 0]

----------------------------------------------------------------------------
(* The M3U format: src/src/m3u/mod.rs *)

EXTM3U == <<"#", "E", "X", "T", "M", "3", "U">>

EXTINF == <<"#", "E", "X", "T", "I", "N", "F", ":">>

HeaderLine == EXTM3U \o <<NL>>

\* struct Song { title, duration, path }; duration in whole seconds
Song(t, d, p) == [title |-> t, duration |-> d, path |-> p]

\* Song::serialize without the newline after the path
serialize_no_final_newline(song) ==
    EXTINF \o ToDec(song.duration) \o <<",">> \o song.title \o <<NL>> \o song.path

\* Song::serialize
serialize(song) ==
    EXTINF \o ToDec(song.duration) \o <<",">> \o song.title \o <<NL>> \o song.path \o <<NL>>

\* Song::parse_m3u_extline: "m3u" for the header, "inf" with duration and title
\* for a metadata line, "panic" where the code unwraps a failure or panics
parse_m3u_extline(line) ==
    IF StartsWith(line, EXTM3U) THEN [kind |-> "m3u", duration |-> 0, title |-> <<>>]
    ELSE IF StartsWith(line, EXTINF)
    THEN LET rest == From(line, Len(EXTINF))
             k == IndexOf(rest, ",")
             dtxt == IF k = 0 THEN rest ELSE SubSeq(rest, 1, k - 1)
             d == ParseF64(dtxt)
         IN  IF ~d.ok \/ k = 0 THEN [kind |-> "panic", duration |-> 0, title |-> <<>>]
             ELSE [kind |-> "inf", duration |-> d.secs, title |-> From(rest, k)]
    ELSE [kind |-> "panic", duration |-> 0, title |-> <<>>]

\* the loop of Song::parse_m3u over the lines, carrying title and duration
RECURSIVE ParseLines(_, _, _, _)
ParseLines(ls, title, duration, songs) ==
    IF ls = <<>> THEN [ok |-> TRUE, songs |-> songs]
    ELSE LET line == Trim(Head(ls))
         IN  IF line = <<>> THEN ParseLines(Tail(ls), title, duration, songs)
             ELSE IF line[1] = "#"
             THEN LET e == parse_m3u_extline(line)
                  IN  IF e.kind = "panic" THEN [ok |-> FALSE, songs |-> songs]
                      ELSE IF e.kind = "m3u" THEN ParseLines(Tail(ls), title, duration, songs)
                      ELSE ParseLines(Tail(ls), e.title, e.duration, songs)
             ELSE ParseLines(Tail(ls), <<>>, 0, Append(songs, Song(title, duration, line)))

\* Song::parse_m3u: the songs of a playlist text; ok = FALSE when it panics
parse_m3u(text) == ParseLines(Lines(text), <<>>, 0, <<>>)

----------------------------------------------------------------------------
(* Files and paths *)

\* the playlist names used as arguments
NameJ == <<"J">>
NameK == <<"K">>
NameEmpty == <<>>
NameSlash == <<"a", "/", "b">>
NameBackslash == <<"a", "\\">>

ValidNames == {NameJ, NameK}
Names == {NameJ, NameK, NameEmpty, NameSlash, NameBackslash}

\* Config::playlist_path: <playlists_dir>/<name>.m3u8
playlist_path(name) == [dir |-> "playlists_dir", file |-> name \o <<".", "m", "3", "u", "8">>]

\* the path Song::add_to_playlist and SongsPane::from_playlist_named build:
\* playlists/<name>.m3u
m3u_path(name) == [dir |-> "playlists", file |-> name \o <<".", "m", "3", "u">>]

Paths == {playlist_path(n) : n \in Names} \cup {m3u_path(n) : n \in ValidNames}

----------------------------------------------------------------------------
(* Song::add_to_playlist, one file operation at a time *)

\* the locals of add_to_playlist: has_extm3u, the buffer of read_to_end, the
\* offset seek(End(-1)) returned, ends_with_newline
AtpLocals == [has_extm3u |-> FALSE, buf |-> <<>>, pos |-> 0, ends |-> FALSE]

\* the header test of add_to_playlist: the first "#EXTM3U".len() bytes are read
\* and compared; a shorter file (UnexpectedEof) has no header
has_extm3u_always(content) == TRUE

has_extm3u(content) == StartsWith(content, EXTM3U)

\* One file operation of add_to_playlist at position pc on a file holding
\* `content` (NoFile when absent). The file is opened create + read + append, so
\* every write lands at the current end of the file.
AtpStep(pc, content, loc, song) ==
    CASE pc = "open" ->
           \* OpenOptions .create(true).read(true).append(true).open(path)
           [pc |-> "read_hdr", content |-> IF content = NoFile THEN <<>> ELSE content, loc |-> loc]
      [] pc = "read_hdr" ->
           \* rewind, read_exact of "#EXTM3U".len() bytes, compare
           LET h == has_extm3u(content)
           IN  [pc |-> IF h THEN "seek_end" ELSE "read_all", content |-> content,
                loc |-> [loc EXCEPT !.has_extm3u = h]]
      [] pc = "read_all" ->
           \* rewind, read_to_end
           [pc |-> "set_len", content |-> content, loc |-> [loc EXCEPT !.buf = content]]
      [] pc = "set_len" ->
           \* set_len(0)
           [pc |-> "write_hdr", content |-> <<>>, loc |-> loc]
      [] pc = "write_hdr" ->
           \* write_all(b"#EXTM3U\n")
           [pc |-> "write_buf", content |-> content \o HeaderLine, loc |-> loc]
      [] pc = "write_buf" ->
           \* write_all(&buf)
           [pc |-> "seek_end", content |-> content \o loc.buf, loc |-> loc]
      [] pc = "seek_end" ->
           \* seek(SeekFrom::End(-1)): an error on an empty file
           IF Len(content) = 0 THEN [pc |-> "failed", content |-> content, loc |-> loc]
           ELSE [pc |-> "read_last", content |-> content, loc |-> [loc EXCEPT !.pos = Len(content) - 1]]
      [] pc = "read_last" ->
           \* read_exact of one byte at the offset; UnexpectedEof counts as "no newline"
           LET e == loc.pos < Len(content) /\ content[loc.pos + 1] = NL
           IN  [pc |-> IF e THEN "write_song" ELSE "write_nl", content |-> content,
                loc |-> [loc EXCEPT !.ends = e]]
      [] pc = "write_nl" ->
           \* write_all(b"\n")
           [pc |-> "write_song", content |-> content \o <<NL>>, loc |-> loc]
      [] pc = "write_song" ->
           \* write_all(self.serialize().as_bytes())
           [pc |-> "done", content |-> content \o serialize(song), loc |-> loc]

AtpRunning(pc) == pc \in {"open", "read_hdr", "read_all", "set_len", "write_hdr", "write_buf",
                          "seek_end", "read_last", "write_nl", "write_song"}

RECURSIVE AtpRun(_, _, _, _)
AtpRun(pc, content, loc, song) ==
    IF AtpRunning(pc)
    THEN LET n == AtpStep(pc, content, loc, song) IN AtpRun(n.pc, n.content, n.loc, song)
    ELSE [pc |-> pc, content |-> content]

\* Song::add_to_playlist run from open to return with no other process touching
\* the file: the content it leaves and Ok or Err
add_to_playlist(content, song) ==
    LET r == AtpRun("open", content, AtpLocals, song)
    IN  [res |-> IF r.pc = "done" THEN "Ok" ELSE "Err", content |-> r.content]

----------------------------------------------------------------------------
(* m3u::Parser: the cursor-tracking parser the store operations use *)

\* the line starting at byte offset cur: its text without the newline, and the
\* offset just past its newline (or the end of the text)
ReadLine(content, cur) ==
    LET rest == From(content, cur)
        k == IndexOf(rest, NL)
    IN  IF k = 0 THEN [line |-> rest, next |-> Len(content)]
        ELSE [line |-> SubSeq(rest, 1, k - 1), next |-> cur + k]

\* Parser::next_header: the cursor after consuming the header line when it is
\* at the cursor; the cursor itself when it is not
next_header(content, cur) ==
    LET l == ReadLine(content, cur)
    IN  IF cur < Len(content) /\ l.line = EXTM3U THEN l.next ELSE cur

\* Parser::next_song: one (metadata line, path line) record at the cursor.
\* res is "Some" with the song and the cursor past both lines, "None" at the
\* end of input, "MalformedPlaylist" otherwise
next_song(content, cur) ==
    IF cur >= Len(content) THEN [res |-> "None", song |-> Song(<<>>, 0, <<>>), cursor |-> cur]
    ELSE LET l1 == ReadLine(content, cur)
             rest == From(l1.line, Len(EXTINF))
             k == IndexOf(rest, ",")
             d == ParseF64(IF k = 0 THEN rest ELSE SubSeq(rest, 1, k - 1))
             l2 == ReadLine(content, l1.next)
             bad == [res |-> "MalformedPlaylist", song |-> Song(<<>>, 0, <<>>), cursor |-> cur]
         IN  IF ~StartsWith(l1.line, EXTINF) \/ k = 0 \/ ~d.ok THEN bad
             ELSE IF l1.next >= Len(content) \/ l2.line = <<>> THEN bad
             ELSE [res |-> "Some", song |-> Song(From(rest, k), d.secs, l2.line),
                   cursor |-> l2.next]

\* `for _ in 0..index { parser.next_song()?; }`: the cursor after skipping
\* `index` songs, or the error of the first next_song that fails
RECURSIVE SkipSongs(_, _, _)
SkipSongs(content, cur, index) ==
    IF index = 0 THEN [res |-> "Ok", cursor |-> cur]
    ELSE LET n == next_song(content, cur)
         IN  IF n.res = "MalformedPlaylist" THEN [res |-> "MalformedPlaylist", cursor |-> cur]
             ELSE SkipSongs(content, n.cursor, index - 1)

\* Parser::all_songs after next_header: next_song until it returns None
RECURSIVE AllSongsFrom(_, _)
AllSongsFrom(content, cur) ==
    LET n == next_song(content, cur)
    IN  IF n.res = "None" THEN [ok |-> TRUE, songs |-> <<>>]
        ELSE IF n.res = "MalformedPlaylist" THEN [ok |-> FALSE, songs |-> <<>>]
        ELSE LET r == AllSongsFrom(content, n.cursor)
             IN  [ok |-> r.ok, songs |-> <<n.song>> \o r.songs]

\* full-file parsing: the header, then every song in file order
all_songs(content) == AllSongsFrom(content, next_header(content, 0))

----------------------------------------------------------------------------
(* The playlist store: src/tori/src/m3u/playlist_management.rs *)

Exists(f, path) == f[path] # NoFile

\* create_playlist without the try_exists test: File::create truncates
create_playlist_truncates(f, name) ==
    IF Contains(name, "/") THEN [res |-> "InvalidChar(/)", fs |-> f]
    ELSE IF Contains(name, "\\") THEN [res |-> "InvalidChar(\\)", fs |-> f]
    ELSE [res |-> "Ok", fs |-> [f EXCEPT ![playlist_path(name)] = <<>>]]

\* create_playlist: the result and the filesystem it leaves
create_playlist(f, name) ==
    IF Contains(name, "/") THEN [res |-> "InvalidChar(/)", fs |-> f]
    ELSE IF Contains(name, "\\") THEN [res |-> "InvalidChar(\\)", fs |-> f]
    ELSE LET path == playlist_path(name)
         IN  IF Exists(f, path) THEN [res |-> "PlaylistAlreadyExists", fs |-> f]
             ELSE [res |-> "Ok", fs |-> [f EXCEPT ![path] = <<>>]]

\* delete_song with the scan running one song too far (`0..=index`)
delete_song_scan_too_far(f, name, index) ==
    LET path == playlist_path(name)
        content == f[path]
        skip == SkipSongs(content, next_header(content, 0), index + 1)
        start_pos == skip.cursor
        target == next_song(content, start_pos)
        end_pos == target.cursor
    IN  IF ~Exists(f, path) THEN [res |-> "IOError", fs |-> f, wrote |-> FALSE]
        ELSE IF skip.res # "Ok" THEN [res |-> skip.res, fs |-> f, wrote |-> FALSE]
        ELSE IF target.res = "MalformedPlaylist" THEN [res |-> target.res, fs |-> f, wrote |-> FALSE]
        ELSE [res |-> "Ok", wrote |-> TRUE,
              fs |-> [f EXCEPT ![path] = Upto(content, start_pos) \o From(content, end_pos)]]

\* delete_song: read the file, scan to the index-th song, rewrite the file
\* without the bytes of that song
delete_song(f, name, index) ==
    LET path == playlist_path(name)
        content == f[path]
        skip == SkipSongs(content, next_header(content, 0), index)
        start_pos == skip.cursor
        target == next_song(content, start_pos)
        end_pos == target.cursor
    IN  IF ~Exists(f, path) THEN [res |-> "IOError", fs |-> f, wrote |-> FALSE]
        ELSE IF skip.res # "Ok" THEN [res |-> skip.res, fs |-> f, wrote |-> FALSE]
        ELSE IF target.res = "MalformedPlaylist" THEN [res |-> target.res, fs |-> f, wrote |-> FALSE]
        ELSE [res |-> "Ok", wrote |-> TRUE,
              fs |-> [f EXCEPT ![path] = Upto(content, start_pos) \o From(content, end_pos)]]

\* rename_song opening the file for truncation before the scan: a parse error
\* is returned with the file already emptied
rename_song_truncates_first(f, name, index, new_name) ==
    LET path == playlist_path(name)
        content == f[path]
        skip == SkipSongs(content, next_header(content, 0), index)
        start_pos == skip.cursor
        target == next_song(content, start_pos)
        end_pos == target.cursor
        emptied == [f EXCEPT ![path] = <<>>]
    IN  IF ~Exists(f, path) THEN [res |-> "IOError", fs |-> f, wrote |-> FALSE]
        ELSE IF skip.res # "Ok" THEN [res |-> skip.res, fs |-> emptied, wrote |-> TRUE]
        ELSE IF target.res = "MalformedPlaylist" THEN [res |-> target.res, fs |-> emptied, wrote |-> TRUE]
        ELSE IF target.res = "Some"
        THEN [res |-> "Ok", wrote |-> TRUE,
              fs |-> [f EXCEPT ![path] = Upto(content, start_pos)
                                         \o serialize([target.song EXCEPT !.title = new_name])
                                         \o From(content, end_pos)]]
        ELSE [res |-> "Ok", wrote |-> TRUE, fs |-> emptied]

\* rename_song writing the song back with the title it read
rename_song_keeps_title(f, name, index, new_name) ==
    LET path == playlist_path(name)
        content == f[path]
        skip == SkipSongs(content, next_header(content, 0), index)
        start_pos == skip.cursor
        target == next_song(content, start_pos)
        end_pos == target.cursor
    IN  IF ~Exists(f, path) THEN [res |-> "IOError", fs |-> f, wrote |-> FALSE]
        ELSE IF skip.res # "Ok" THEN [res |-> skip.res, fs |-> f, wrote |-> FALSE]
        ELSE IF target.res = "MalformedPlaylist" THEN [res |-> target.res, fs |-> f, wrote |-> FALSE]
        ELSE IF target.res = "Some"
        THEN [res |-> "Ok", wrote |-> TRUE,
              fs |-> [f EXCEPT ![path] = Upto(content, start_pos) \o serialize(target.song)
                                         \o From(content, end_pos)]]
        ELSE [res |-> "Ok", fs |-> f, wrote |-> FALSE]

\* rename_song: read the file, scan to the index-th song, parse it, and when
\* there is one rewrite the file with that song serialized under the new title
\* between the bytes before and after it
rename_song(f, name, index, new_name) ==
    LET path == playlist_path(name)
        content == f[path]
        skip == SkipSongs(content, next_header(content, 0), index)
        start_pos == skip.cursor
        target == next_song(content, start_pos)
        end_pos == target.cursor
    IN  IF ~Exists(f, path) THEN [res |-> "IOError", fs |-> f, wrote |-> FALSE]
        ELSE IF skip.res # "Ok" THEN [res |-> skip.res, fs |-> f, wrote |-> FALSE]
        ELSE IF target.res = "MalformedPlaylist" THEN [res |-> target.res, fs |-> f, wrote |-> FALSE]
        ELSE IF target.res = "Some"
        THEN [res |-> "Ok", wrote |-> TRUE,
              fs |-> [f EXCEPT ![path] = Upto(content, start_pos)
                                         \o serialize([target.song EXCEPT !.title = new_name])
                                         \o From(content, end_pos)]]
        ELSE [res |-> "Ok", fs |-> f, wrote |-> FALSE]

\* swap_song writing the two songs back in the order it read them
swap_song_same_order(f, name, index) ==
    LET path == playlist_path(name)
        content == f[path]
        skip == SkipSongs(content, next_header(content, 0), index)
        start_pos == skip.cursor
        song1 == next_song(content, start_pos)
        song2 == next_song(content, song1.cursor)
        end_pos == song2.cursor
    IN  IF ~Exists(f, path) THEN [res |-> "IOError", fs |-> f, wrote |-> FALSE]
        ELSE IF skip.res # "Ok" THEN [res |-> skip.res, fs |-> f, wrote |-> FALSE]
        ELSE IF song1.res = "MalformedPlaylist" THEN [res |-> song1.res, fs |-> f, wrote |-> FALSE]
        ELSE IF song2.res = "MalformedPlaylist" THEN [res |-> song2.res, fs |-> f, wrote |-> FALSE]
        ELSE IF song1.res = "Some" /\ song2.res = "Some"
        THEN [res |-> "Ok", wrote |-> TRUE,
              fs |-> [f EXCEPT ![path] = Upto(content, start_pos) \o serialize(song1.song)
                                         \o serialize(song2.song) \o From(content, end_pos)]]
        ELSE [res |-> "Ok", fs |-> f, wrote |-> FALSE]

\* swap_song opening the file for truncation before it looks at the two songs
swap_song_truncates_first(f, name, index) ==
    LET path == playlist_path(name)
        content == f[path]
        skip == SkipSongs(content, next_header(content, 0), index)
        start_pos == skip.cursor
        song1 == next_song(content, start_pos)
        song2 == next_song(content, song1.cursor)
        end_pos == song2.cursor
    IN  IF ~Exists(f, path) THEN [res |-> "IOError", fs |-> f, wrote |-> FALSE]
        ELSE IF skip.res # "Ok" THEN [res |-> skip.res, fs |-> f, wrote |-> FALSE]
        ELSE IF song1.res = "MalformedPlaylist" THEN [res |-> song1.res, fs |-> f, wrote |-> FALSE]
        ELSE IF song2.res = "MalformedPlaylist" THEN [res |-> song2.res, fs |-> f, wrote |-> FALSE]
        ELSE IF song1.res = "Some" /\ song2.res = "Some"
        THEN [res |-> "Ok", wrote |-> TRUE,
              fs |-> [f EXCEPT ![path] = Upto(content, start_pos) \o serialize(song2.song)
                                         \o serialize(song1.song) \o From(content, end_pos)]]
        ELSE [res |-> "Ok", wrote |-> TRUE, fs |-> [f EXCEPT ![path] = <<>>]]

\* swap_song: read the file, scan to the index-th song, parse it and the next
\* one, rewrite the file with the two serialized in reverse order
swap_song(f, name, index) ==
    LET path == playlist_path(name)
        content == f[path]
        skip == SkipSongs(content, next_header(content, 0), index)
        start_pos == skip.cursor
        song1 == next_song(content, start_pos)
        song2 == next_song(content, song1.cursor)
        end_pos == song2.cursor
    IN  IF ~Exists(f, path) THEN [res |-> "IOError", fs |-> f, wrote |-> FALSE]
        ELSE IF skip.res # "Ok" THEN [res |-> skip.res, fs |-> f, wrote |-> FALSE]
        ELSE IF song1.res = "MalformedPlaylist" THEN [res |-> song1.res, fs |-> f, wrote |-> FALSE]
        ELSE IF song2.res = "MalformedPlaylist" THEN [res |-> song2.res, fs |-> f, wrote |-> FALSE]
        ELSE IF song1.res = "Some" /\ song2.res = "Some"
        THEN [res |-> "Ok", wrote |-> TRUE,
              fs |-> [f EXCEPT ![path] = Upto(content, start_pos) \o serialize(song2.song)
                                         \o serialize(song1.song) \o From(content, end_pos)]]
        ELSE [res |-> "Ok", fs |-> f, wrote |-> FALSE]

\* rename_playlist without the fs::metadata test: fs::rename replaces the file
\* at the new path
rename_playlist_overwrites(f, name, new_name) ==
    LET old_path == playlist_path(name)
        new_path == playlist_path(new_name)
    IN  IF new_name = <<>> THEN [res |-> "EmptyPlaylistName", fs |-> f]
        ELSE IF Contains(new_name, "/") THEN [res |-> "InvalidChar(/)", fs |-> f]
        ELSE IF Contains(new_name, "\\") THEN [res |-> "InvalidChar(\\)", fs |-> f]
        ELSE IF ~Exists(f, old_path) THEN [res |-> "IOError", fs |-> f]
        ELSE [res |-> "Ok", fs |-> [f EXCEPT ![new_path] = f[old_path], ![old_path] = NoFile]]

\* rename_playlist: the checks on new_name in the order of the code, then
\* fs::rename, which fails when the old file is missing
rename_playlist(f, name, new_name) ==
    LET old_path == playlist_path(name)
        new_path == playlist_path(new_name)
    IN  IF new_name = <<>> THEN [res |-> "EmptyPlaylistName", fs |-> f]
        ELSE IF Contains(new_name, "/") THEN [res |-> "InvalidChar(/)", fs |-> f]
        ELSE IF Contains(new_name, "\\") THEN [res |-> "InvalidChar(\\)", fs |-> f]
        ELSE IF Exists(f, new_path) THEN [res |-> "PlaylistAlreadyExists", fs |-> f]
        ELSE IF ~Exists(f, old_path) THEN [res |-> "IOError", fs |-> f]
        ELSE [res |-> "Ok", fs |-> [f EXCEPT ![new_path] = f[old_path], ![old_path] = NoFile]]

\* delete_playlist: fs::remove_file, which fails when the file is missing
delete_playlist(f, name) ==
    LET path == playlist_path(name)
    IN  IF ~Exists(f, path) THEN [res |-> "IOError", fs |-> f]
        ELSE [res |-> "Ok", fs |-> [f EXCEPT ![path] = NoFile]]

----------------------------------------------------------------------------
(* Values the operations are run on *)

SongBlue == Song(<<"B", "l", "u", "e">>, 125, <<"/", "m", "u", "s", "i", "c", "/", "b", "l", "u", "e", ".", "m", "p", "3">>)

\* a title that ends in a space
SongPad == Song(<<"a", " ">>, 0, <<"h", "t", "t", "p", ":", "/", "/", "u">>)

\* a title that holds a comma
SongComma == Song(<<"x", ",", "y">>, 7, <<"h", "t", "t", "p", "s", ":", "/", "/", "v">>)

Songs == {SongBlue, SongPad, SongComma}

\* the songs add_to_playlist is called with
AppendSongs == {SongBlue, SongPad}

\* the playlist the song-level operations are called on
SongOpNames == {NameJ}

\* the titles rename_song is called with: one that holds a comma and ends in a
\* space
RenameTitles == { <<"c", ",", " ">> }

\* a metadata line with a fractional duration and its path line, the final
\* newline missing
RecordFraction == <<"#", "E", "X", "T", "I", "N", "F", ":", "7", ".", "5", ",", "z", "\n", "h", "t", "t", "p", ":", "/", "/", "w">>

\* a metadata line with no path line after it
RecordNoPath == <<"#", "E", "X", "T", "I", "N", "F", ":", "7", ",", "z", "\n">>

\* contents a <name>.m3u8 file is found with when the program starts
Seeds8 ==
    { NoFile,
      HeaderLine \o serialize(SongBlue) \o serialize(SongPad) \o serialize(SongComma),
      serialize(SongComma) \o RecordFraction,
      HeaderLine \o serialize(SongBlue) \o RecordNoPath }

\* contents a <name>.m3u file is found with when the program starts
SeedsM3u ==
    { NoFile,
      <<>>,
      EXTM3U,
      HeaderLine \o serialize(SongComma),
      serialize(SongBlue),
      serialize(SongComma) \o RecordFraction }

----------------------------------------------------------------------------
(* The store operations called one after another *)

NoOp == [op |-> "none", name |-> <<>>, new_name |-> <<>>, index |-> 0, song |-> SongBlue,
         res |-> "Ok", wrote |-> FALSE, pre |-> [p \in Paths |-> NoFile]]

NoAppends == [n \in ValidNames |-> [base |-> NoFile, songs |-> <<>>]]

\* the background threads add_song spawns
Threads == {"t1", "t2"}

Idle == [t \in Threads |-> [pc |-> "idle", song |-> SongBlue, loc |-> AtpLocals]]

NoRoundTrip == [phase |-> "off"]

NoScenario == [pc |-> "off"]

NoIngestion == [pc |-> "off"]

NoFiles == [p \in Paths |-> NoFile]

\* The playlists directory holds whatever earlier runs and the user left in it:
\* one file of playlist J is drawn from the seeds, every other path is free
InitFiles ==
    { [p \in Paths |-> IF p = playlist_path(NameJ) THEN c ELSE NoFile] : c \in Seeds8 }
    \cup { [p \in Paths |-> IF p = m3u_path(NameJ) THEN c ELSE NoFile] : c \in SeedsM3u }

Init ==
    /\ fs \in InitFiles
    /\ last = NoOp
    /\ appended = [n \in ValidNames |-> [base |-> fs[m3u_path(n)], songs |-> <<>>]]
    /\ th = Idle
    /\ rt = NoRoundTrip
    /\ sc = NoScenario
    /\ renames = 0
    /\ pane = [pc |-> "off"]
    /\ ig = NoIngestion

\* `wrote`: the operation opened a file for writing, created, renamed or removed
\* one. The song-level operations say so themselves; each of the others does
\* so exactly when it changes the filesystem.
Done(op, name, new_name, index, song, r) ==
    /\ fs' = r.fs
    /\ last' = [op |-> op, name |-> name, new_name |-> new_name, index |-> index,
                song |-> song, res |-> r.res,
                wrote |-> IF "wrote" \in DOMAIN r THEN r.wrote ELSE r.fs # fs,
                pre |-> fs]

CreatePlaylist ==
    /\ \E name \in Names : Done("create_playlist", name, <<>>, 0, SongBlue, create_playlist(fs, name))
    /\ UNCHANGED <<appended, th, rt, sc, renames, ig, pane>>

DeletePlaylist ==
    /\ \E name \in ValidNames : Done("delete_playlist", name, <<>>, 0, SongBlue, delete_playlist(fs, name))
    /\ UNCHANGED <<appended, th, rt, sc, renames, ig, pane>>

RenamePlaylist ==
    /\ \E name \in ValidNames, new_name \in Names :
          Done("rename_playlist", name, new_name, 0, SongBlue, rename_playlist(fs, name, new_name))
    /\ UNCHANGED <<appended, th, rt, sc, renames, ig, pane>>

DeleteSong ==
    /\ \E name \in SongOpNames, index \in 0..MaxIndex :
          Done("delete_song", name, <<>>, index, SongBlue, delete_song(fs, name, index))
    /\ UNCHANGED <<appended, th, rt, sc, renames, ig, pane>>

SwapSong ==
    /\ \E name \in SongOpNames, index \in 0..MaxIndex :
          Done("swap_song", name, <<>>, index, SongBlue, swap_song(fs, name, index))
    /\ UNCHANGED <<appended, th, rt, sc, renames, ig, pane>>

RenameSong ==
    /\ \E name \in SongOpNames, index \in 0..MaxIndex, new_name \in RenameTitles :
          Done("rename_song", name, new_name, index, SongBlue, rename_song(fs, name, index, new_name))
    /\ renames < MaxRenames
    /\ renames' = renames + 1
    /\ UNCHANGED <<appended, th, rt, sc, ig, pane>>

\* song.add_to_playlist(name), the whole call
AppendSong ==
    /\ \E song \in AppendSongs :
          LET name == NameJ
              path == m3u_path(name)
              r == add_to_playlist(fs[path], song)
          IN  /\ Len(appended[name].songs) < MaxAppends
              /\ Done("add_to_playlist", name, <<>>, 0, song,
                      [res |-> r.res, fs |-> [fs EXCEPT ![path] = r.content]])
              /\ appended' = [appended EXCEPT ![name].songs = Append(@, song)]
    /\ UNCHANGED <<th, rt, sc, renames, ig, pane>>

Next ==
    \/ CreatePlaylist
    \/ DeletePlaylist
    \/ RenamePlaylist
    \/ DeleteSong
    \/ SwapSong
    \/ AppendSong

Spec == Init /\ [][Next]_vars

----------------------------------------------------------------------------
(* The song-level operations on one playlist: create, append, delete_song,  *)
(* rename_song, swap_song                                                   *)

\* The file of playlist J is absent, empty, or one of the seeds
InitSongs ==
    /\ fs \in { [p \in Paths |-> IF p = playlist_path(NameJ) THEN c ELSE NoFile] :
                   c \in Seeds8 \cup {<<>>} }
    /\ last = NoOp
    /\ appended = [n \in ValidNames |-> [base |-> fs[m3u_path(n)], songs |-> <<>>]]
    /\ th = Idle
    /\ rt = NoRoundTrip
    /\ sc = NoScenario
    /\ renames = 0
    /\ pane = [pc |-> "off"]
    /\ ig = NoIngestion

\* create_playlist(name) for the playlist the song-level operations work on
CreateSongPlaylist ==
    /\ \E name \in SongOpNames :
          Done("create_playlist", name, <<>>, 0, SongBlue, create_playlist(fs, name))
    /\ UNCHANGED <<appended, th, rt, sc, renames, ig, pane>>

NextSongs ==
    \/ CreateSongPlaylist
    \/ AppendSong
    \/ DeleteSong
    \/ RenameSong
    \/ SwapSong

SpecSongs == InitSongs /\ [][NextSongs]_vars

----------------------------------------------------------------------------
(* Claims about the store operations *)

\* the number of lines of ls equal to the header
RECURSIVE HeaderCount(_)
HeaderCount(ls) ==
    IF ls = <<>> THEN 0 ELSE (IF Head(ls) = EXTM3U THEN 1 ELSE 0) + HeaderCount(Tail(ls))

\* s without its element at 0-based index i
RemoveAt(s, i) == SubSeq(s, 1, i) \o SubSeq(s, i + 2, Len(s))

\* s with its elements at 0-based indices i and i+1 exchanged
ExchangeAt(s, i) ==
    [k \in 1..Len(s) |-> IF k = i + 1 THEN s[i + 2] ELSE IF k = i + 2 THEN s[i + 1] ELSE s[k]]

\* the file the last operation's playlist name denotes, before and after it
PreFile == last.pre[playlist_path(last.name)]
PostFile == fs[playlist_path(last.name)]

\* the last operation was delete_song(p, i) on a file holding n > i songs
DeleteInRange ==
    /\ last.op = "delete_song"
    /\ Exists(last.pre, playlist_path(last.name))
    /\ all_songs(PreFile).ok
    /\ last.index < Len(all_songs(PreFile).songs)

\* C1: after delete_song(p, i) on a file holding n songs, i < n, the file parses
\* to the original song sequence with element i removed, and the new content is
\* content[0:start] ++ content[end:] where content[start:end] is exactly the
\* record of song i: every byte before and after that record is kept.
C1_DeleteRemovesExactlyOneRecord ==
    DeleteInRange =>
        LET songs == all_songs(PreFile).songs
        IN  /\ last.res = "Ok"
            /\ all_songs(PostFile).ok
            /\ all_songs(PostFile).songs = RemoveAt(songs, last.index)
            /\ parse_m3u(PreFile).ok =>
                  parse_m3u(PostFile).songs = RemoveAt(parse_m3u(PreFile).songs, last.index)
            /\ \E start \in 0..Len(PreFile) : \E end \in start..Len(PreFile) :
                  /\ PostFile = Upto(PreFile, start) \o From(PreFile, end)
                  /\ all_songs(SubSeq(PreFile, start + 1, end)).songs = <<songs[last.index + 1]>>
            /\ \A p \in Paths : p # playlist_path(last.name) => fs[p] = last.pre[p]

\* delete_song removed the middle song of a three-song playlist
C1_Witness ==
    /\ DeleteInRange
    /\ last.index = 1
    /\ Len(all_songs(PreFile).songs) = 3
    /\ Len(all_songs(PostFile).songs) = 2

\* the last operation was swap_song(p, i) on a file holding n > i + 1 songs
SwapInRange ==
    /\ last.op = "swap_song"
    /\ Exists(last.pre, playlist_path(last.name))
    /\ all_songs(PreFile).ok
    /\ last.index + 1 < Len(all_songs(PreFile).songs)

\* C2: after swap_song(p, i) with i+1 < n, the songs listed at positions i and
\* i+1 are exchanged (title, duration, path) and every other entry keeps its
\* value and position; no other file changes.
C2_SwapExchangesNeighbours ==
    SwapInRange =>
        /\ last.res = "Ok"
        /\ all_songs(PostFile).ok
        /\ all_songs(PostFile).songs = ExchangeAt(all_songs(PreFile).songs, last.index)
        /\ parse_m3u(PreFile).ok =>
              parse_m3u(PostFile).songs = ExchangeAt(parse_m3u(PreFile).songs, last.index)
        /\ \A p \in Paths : p # playlist_path(last.name) => fs[p] = last.pre[p]

\* swap_song exchanged the second and third of three different songs
C2_Witness ==
    /\ SwapInRange
    /\ last.index = 1
    /\ Len(all_songs(PreFile).songs) = 3
    /\ all_songs(PostFile).songs # all_songs(PreFile).songs

\* the file add_to_playlist opened for the last operation's playlist name
PreM3u == last.pre[m3u_path(last.name)]
PostM3u == fs[m3u_path(last.name)]

\* the songs the view lists for playlist `name`: SongsPane::from_playlist_named
\* opens playlists/<name>.m3u and runs Song::parse_m3u on it
Listed(f, name) ==
    IF Exists(f, m3u_path(name)) /\ parse_m3u(f[m3u_path(name)]).ok
    THEN parse_m3u(f[m3u_path(name)]).songs
    ELSE <<>>

\* C3: a playlist whose file was absent or empty and has since only been
\* appended to lists exactly the appended songs, in the order of the appends.
C3_ListReturnsAppended ==
    \A n \in ValidNames :
        (appended[n].base \in {NoFile, <<>>} /\ appended[n].songs # <<>>) =>
            /\ Exists(fs, m3u_path(n))
            /\ parse_m3u(fs[m3u_path(n)]).ok
            /\ parse_m3u(fs[m3u_path(n)]).songs = appended[n].songs

\* C5: add_to_playlist on an existing file. A file that does not start with the
\* header gets the header line in front of its lines, which are kept unchanged
\* and in order, then the two lines of the new record; a file that starts with
\* the header gets only the new record and no second header. The result ends in
\* a newline.
C5_AppendWritesHeaderOnce ==
    (last.op = "add_to_playlist" /\ Exists(last.pre, m3u_path(last.name))) =>
        LET record == Lines(serialize(last.song))
        IN  /\ last.res = "Ok"
            /\ Lines(PostM3u) = (IF StartsWith(PreM3u, EXTM3U) THEN <<>> ELSE <<EXTM3U>>)
                                \o Lines(PreM3u) \o record
            /\ HeaderCount(Lines(PostM3u)) =
                  (IF HeaderCount(Lines(PreM3u)) = 0 THEN 1 ELSE HeaderCount(Lines(PreM3u)))
            /\ StartsWith(PostM3u, HeaderLine)
            /\ PostM3u[Len(PostM3u)] = NL
            /\ \A p \in Paths : p # m3u_path(last.name) => fs[p] = last.pre[p]

\* a song was appended to a header-less file of two records that did not end in
\* a newline
C5_Witness ==
    /\ last.op = "add_to_playlist"
    /\ Exists(last.pre, m3u_path(last.name))
    /\ ~StartsWith(PreM3u, EXTM3U)
    /\ Len(Lines(PreM3u)) = 4
    /\ PreM3u[Len(PreM3u)] # NL
    /\ Len(parse_m3u(PostM3u).songs) = 3

HasSeparator(name) == Contains(name, "/") \/ Contains(name, "\\")

InvalidName == {"InvalidChar(/)", "InvalidChar(\\)"}

RenameRejected == {"EmptyPlaylistName", "InvalidChar(/)", "InvalidChar(\\)", "PlaylistAlreadyExists"}

\* C8 as stated: EmptyName whenever new is empty, InvalidName whenever new holds
\* a separator, AlreadyExists whenever a file for new exists, whether or not the
\* file of x exists; and on each of these failures no file changes.
C8_RenameValidationAsStated ==
    last.op = "rename_playlist" =>
        /\ last.new_name = <<>> => last.res = "EmptyPlaylistName"
        /\ HasSeparator(last.new_name) => last.res \in InvalidName
        /\ Exists(last.pre, playlist_path(last.new_name)) => last.res = "PlaylistAlreadyExists"
        /\ last.res \in RenameRejected => fs = last.pre

\* C8 amended: EmptyName whenever new is empty, InvalidName whenever new holds a
\* separator, AlreadyExists whenever new is not empty, holds no separator and a
\* file for new exists, whether or not the file of x exists; and on each of
\* these failures no file is created, removed or modified.
C8_RenameValidation ==
    last.op = "rename_playlist" =>
        /\ last.new_name = <<>> => last.res = "EmptyPlaylistName"
        /\ HasSeparator(last.new_name) => last.res \in InvalidName
        /\ (last.new_name # <<>> /\ ~HasSeparator(last.new_name)
              /\ Exists(last.pre, playlist_path(last.new_name))) =>
                 last.res = "PlaylistAlreadyExists"
        /\ last.res \in RenameRejected => fs = last.pre

\* rename_playlist onto an existing playlist that holds songs, from a name that
\* has no file, was refused
C8_Witness ==
    /\ last.op = "rename_playlist"
    /\ last.res = "PlaylistAlreadyExists"
    /\ ~Exists(last.pre, playlist_path(last.name))
    /\ Len(last.pre[playlist_path(last.new_name)]) > 0

\* x is an element of the sequence s
In(x, s) == \E i \in 1..Len(s) : s[i] = x

\* C9: when rename_playlist(old, new) succeeds the file of old is gone, the file
\* of new exists with the bytes old had, and every song that was added to old
\* is listed under new (by the view, or at least by a parse of the renamed file).
C9_RenameKeepsSongs ==
    (last.op = "rename_playlist" /\ last.res = "Ok") =>
        /\ ~Exists(fs, playlist_path(last.name))
        /\ Exists(fs, playlist_path(last.new_name))
        /\ fs[playlist_path(last.new_name)] = last.pre[playlist_path(last.name)]
        /\ \A i \in 1..Len(appended[last.name].songs) :
              \/ In(appended[last.name].songs[i], Listed(fs, last.new_name))
              \/ In(appended[last.name].songs[i],
                    all_songs(fs[playlist_path(last.new_name)]).songs)

DeleteOutOfRange ==
    /\ last.op = "delete_song"
    /\ Exists(last.pre, playlist_path(last.name))
    /\ all_songs(PreFile).ok
    /\ last.index >= Len(all_songs(PreFile).songs)

\* C11: delete_song(playlist, index) on a playlist that holds fewer than
\* index+1 songs (an empty or header-only file included) fails with
\* IndexOutOfRange and does not return success.
C11_DeleteOutOfRangeFails ==
    DeleteOutOfRange => last.res = "IndexOutOfRange"

\* the last operation was rename_song(p, i, t) on a file holding n > i songs
RenameInRange ==
    /\ last.op = "rename_song"
    /\ Exists(last.pre, playlist_path(last.name))
    /\ all_songs(PreFile).ok
    /\ last.index < Len(all_songs(PreFile).songs)

\* C12: after rename_song(p, i, new_title) on a file holding n songs, i < n,
\* the file holds n songs, song i has the title new_title and the duration
\* (whole seconds) and path it had, every other song is as it was, and the
\* bytes before and after the record of song i are kept: the new content is
\* content[0:start] ++ record ++ content[end:] where content[start:end] was
\* exactly the record of song i and `record` is that of the renamed song.
C12_RenameSongReplacesTitle ==
    RenameInRange =>
        LET pre == all_songs(PreFile).songs
            post == all_songs(PostFile)
            i == last.index + 1
            renamed == Song(last.new_name, pre[i].duration, pre[i].path)
        IN  /\ last.res = "Ok"
            /\ post.ok
            /\ Len(post.songs) = Len(pre)
            /\ post.songs[i] = renamed
            /\ \A k \in 1..Len(pre) : k # i => post.songs[k] = pre[k]
            /\ parse_m3u(PreFile).ok =>
                  LET vpre == parse_m3u(PreFile).songs
                      vpost == parse_m3u(PostFile).songs
                  IN  /\ Len(vpost) = Len(vpre)
                      /\ vpost[i].duration = vpre[i].duration
                      /\ vpost[i].path = vpre[i].path
                      /\ \A k \in 1..Len(vpre) : k # i => vpost[k] = vpre[k]
            /\ \E start \in 0..Len(PreFile) : \E end \in start..Len(PreFile) :
                  LET tail == Len(PreFile) - end
                  IN  /\ Len(PostFile) >= start + tail
                      /\ Upto(PostFile, start) = Upto(PreFile, start)
                      /\ From(PostFile, Len(PostFile) - tail) = From(PreFile, end)
                      /\ all_songs(SubSeq(PreFile, start + 1, end)).songs = <<pre[i]>>
                      /\ SubSeq(PostFile, start + 1, Len(PostFile) - tail) = serialize(renamed)
            /\ \A p \in Paths : p # playlist_path(last.name) => fs[p] = last.pre[p]

\* rename_song gave the middle song of a three-song playlist a title that
\* holds a comma and ends in a space
C12_Witness ==
    /\ RenameInRange
    /\ last.index = 1
    /\ last.new_name = <<"c", ",", " ">>
    /\ Len(all_songs(PreFile).songs) = 3
    /\ all_songs(PostFile).songs[2].title = <<"c", ",", " ">>
    /\ PostFile # PreFile

\* the last operation was swap_song(p, i) on a file holding n <= i + 1 songs
SwapOutOfRange ==
    /\ last.op = "swap_song"
    /\ Exists(last.pre, playlist_path(last.name))
    /\ all_songs(PreFile).ok
    /\ last.index + 1 >= Len(all_songs(PreFile).songs)

\* the last operation was rename_song(p, i, t) on a file holding n <= i songs
RenameOutOfRange ==
    /\ last.op = "rename_song"
    /\ Exists(last.pre, playlist_path(last.name))
    /\ all_songs(PreFile).ok
    /\ last.index >= Len(all_songs(PreFile).songs)

\* C13: swap_song(p, i) when i+1 is not a song index and rename_song(p, i, t)
\* when i is not a song index return success, do not open the file for
\* writing, and leave every file as it was.
C13_OutOfRangeEditsAreNoOps ==
    (SwapOutOfRange \/ RenameOutOfRange) =>
        /\ last.res = "Ok"
        /\ ~last.wrote
        /\ fs = last.pre

\* swap_song was called on the last song of a three-song playlist
C13_Witness ==
    /\ SwapOutOfRange
    /\ last.index = 2
    /\ Len(all_songs(PreFile).songs) = 3
    /\ PostFile = PreFile

\* a metadata line: "#EXTINF:" and what follows it
IsMetadataLine(line) == StartsWith(line, EXTINF)

\* a path line: not empty, and not a "#" line
IsPathLine(line) == line # <<>> /\ line[1] # "#"

\* the structure of a playlist file: no file or an empty file; or the header
\* line, then only pairs of a metadata line and a path line, the last line
\* ended by a newline
WellFormed(content) ==
    \/ content = NoFile
    \/ content = <<>>
    \/ LET ls == Lines(content)
       IN  /\ content[Len(content)] = NL
           /\ ls[1] = EXTM3U
           /\ Len(ls) % 2 = 1
           /\ \A k \in 2..Len(ls) :
                 IF k % 2 = 0 THEN IsMetadataLine(ls[k]) ELSE IsPathLine(ls[k])

\* C19: create, append, delete_song, rename_song and swap_song keep the
\* structure of every playlist file: a file that was absent, empty or well
\* formed before the operation is, when not empty, the header line followed
\* only by complete two-line records, and ends with a newline, after it.
C19_StructureKept ==
    last.op # "none" =>
        \A p \in Paths : WellFormed(last.pre[p]) => WellFormed(fs[p])

\* rename_song rewrote a well-formed file of three songs
C19_Witness ==
    /\ last.op = "rename_song"
    /\ last.wrote
    /\ WellFormed(PreFile)
    /\ Len(all_songs(PreFile).songs) = 3
    /\ PostFile # PreFile
    /\ Len(Lines(PostFile)) = 7

\* C18: the operations on playlist `name` address one file. The file
\* add_to_playlist and the view open for `name` is the file create_playlist,
\* delete_song, rename_song, swap_song, rename_playlist and delete_playlist
\* open for it, so after a successful append the song is among the songs the
\* store reads from the playlist's file.
C18_OneFilePerPlaylist ==
    (last.op = "add_to_playlist" /\ last.res = "Ok") =>
        /\ m3u_path(last.name) = playlist_path(last.name)
        /\ Exists(fs, playlist_path(last.name))
        /\ In(last.song, all_songs(fs[playlist_path(last.name)]).songs)

----------------------------------------------------------------------------
(* Loading the song list: SongsPane::from_playlist_named *)

\* lines a playlist file can hold: the header, a metadata line, a path line, a
\* comment, a metadata line with a duration that is no number, a metadata line
\* with no comma
LoadLines ==
    { EXTM3U,
      <<"#", "E", "X", "T", "I", "N", "F", ":", "7", ",", "z">>,
      <<"h", "t", "t", "p", ":", "/", "/", "w">>,
      <<"#", "c">>,
      <<"#", "E", "X", "T", "I", "N", "F", ":", "x", ",", "z">>,
      <<"#", "E", "X", "T", "I", "N", "F", ":", "7">> }

\* files of at most this many lines are loaded
MaxLines == 3

\* the text of the lines ls, each ended by a newline
RECURSIVE TextOf(_)
TextOf(ls) == IF ls = <<>> THEN <<>> ELSE Head(ls) \o <<NL>> \o TextOf(Tail(ls))

LoadTexts == { TextOf(ls) : ls \in UNION { [1..n -> LoadLines] : n \in 0..MaxLines } }

InitLoad ==
    /\ fs \in { [p \in Paths |-> IF p = m3u_path(NameJ) THEN c ELSE NoFile] :
                   c \in LoadTexts \cup {NoFile} }
    /\ last = NoOp
    /\ appended = [n \in ValidNames |-> [base |-> fs[m3u_path(n)], songs |-> <<>>]]
    /\ th = Idle
    /\ rt = NoRoundTrip
    /\ sc = NoScenario
    /\ renames = 0
    /\ pane = [pc |-> "off"]
    /\ ig = NoIngestion

\* SongsPane::from_playlist: File::open, which panics when it fails, then
\* Song::parse_m3u, which panics where parse_m3u_extline does; the filesystem
\* is only read
from_playlist(f, path) ==
    IF ~Exists(f, path) THEN [res |-> "panic", fs |-> f]
    ELSE IF parse_m3u(f[path]).ok THEN [res |-> "Ok", fs |-> f]
    ELSE [res |-> "panic", fs |-> f]

\* SongsPane::from_playlist_named(name)
FromPlaylistNamed ==
    /\ \E name \in SongOpNames :
          Done("from_playlist_named", name, <<>>, 0, SongBlue, from_playlist(fs, m3u_path(name)))
    /\ UNCHANGED <<appended, th, rt, sc, renames, ig, pane>>

NextLoad == FromPlaylistNamed

SpecLoad == InitLoad /\ [][NextLoad]_vars

\* a "#" line that is neither the header nor a metadata line with a duration
\* that parses and a title field after a comma
MalformedLine(line) ==
    /\ line # <<>>
    /\ line[1] = "#"
    /\ ~StartsWith(line, EXTM3U)
    /\ \/ ~StartsWith(line, EXTINF)
       \/ LET rest == From(line, Len(EXTINF))
              k == IndexOf(rest, ",")
          IN  k = 0 \/ ~ParseF64(SubSeq(rest, 1, k - 1)).ok

\* C20: loading a playlist file that holds a malformed line is reported to the
\* caller as a MalformedPlaylist error; loading never aborts the process.
C20_MalformedIsTypedError ==
    (last.op = "from_playlist_named" /\ Exists(last.pre, m3u_path(last.name))) =>
        /\ last.res # "panic"
        /\ (\E i \in 1..Len(Lines(PreM3u)) : MalformedLine(Trim(Lines(PreM3u)[i]))) =>
              last.res = "MalformedPlaylist"

----------------------------------------------------------------------------
(* The round trip of one Song through serialize and parse_m3u *)

RTTitles == { <<"B", "l", "u", "e">>, <<"a", " ">>, <<"x", ",", "y">>, <<" ", "b">>, <<>> }

RTDurations == {0, 7, 125, 3600}

RTPaths == { <<"/", "m", "u", "s", "i", "c", "/", "b", "l", "u", "e", ".", "m", "p", "3">>, <<"h", "t", "t", "p", ":", "/", "/", "u">>, <<"h", "t", "t", "p", "s", ":", "/", "/", "v">> }

RTSongs == { Song(t, d, p) : t \in RTTitles, d \in RTDurations, p \in RTPaths }

InitRoundTrip ==
    /\ fs = NoFiles
    /\ last = NoOp
    /\ appended = NoAppends
    /\ th = Idle
    /\ rt \in { [phase |-> "input", song |-> s, parsed |-> [ok |-> TRUE, songs |-> <<>>]] : s \in RTSongs }
    /\ sc = NoScenario
    /\ renames = 0
    /\ pane = [pc |-> "off"]
    /\ ig = NoIngestion

\* Song::parse_m3u on the header line followed by song.serialize()
RoundTrip ==
    /\ rt.phase = "input"
    /\ rt' = [rt EXCEPT !.phase = "parsed", !.parsed = parse_m3u(HeaderLine \o serialize(rt.song))]
    /\ UNCHANGED <<fs, last, appended, th, sc, renames, ig, pane>>

NextRoundTrip == RoundTrip

SpecRoundTrip == InitRoundTrip /\ [][NextRoundTrip]_vars

\* C4: parsing the header line followed by serialize(s) yields exactly <<s>>:
\* one song, equal to s in title, whole-second duration and path.
C4_RoundTrip ==
    rt.phase = "parsed" => rt.parsed.ok /\ rt.parsed.songs = <<rt.song>>

----------------------------------------------------------------------------
(* The scenario: create a playlist, append one song to it, delete song 0 *)

InitScenario ==
    /\ fs = NoFiles
    /\ last = NoOp
    /\ appended = NoAppends
    /\ th = Idle
    /\ rt = NoRoundTrip
    /\ sc \in { [pc |-> "create", name |-> n, song |-> s] : n \in ValidNames, s \in RTSongs }
    /\ renames = 0
    /\ pane = [pc |-> "off"]
    /\ ig = NoIngestion

\* create_playlist(name)
ScenarioCreate ==
    /\ sc.pc = "create"
    /\ Done("create_playlist", sc.name, <<>>, 0, sc.song, create_playlist(fs, sc.name))
    /\ sc' = [sc EXCEPT !.pc = "append"]
    /\ UNCHANGED <<appended, th, rt, renames, ig, pane>>

\* song.add_to_playlist(name)
ScenarioAppend ==
    /\ sc.pc = "append"
    /\ LET path == m3u_path(sc.name)
           r == add_to_playlist(fs[path], sc.song)
       IN  Done("add_to_playlist", sc.name, <<>>, 0, sc.song,
                [res |-> r.res, fs |-> [fs EXCEPT ![path] = r.content]])
    /\ appended' = [appended EXCEPT ![sc.name].songs = Append(@, sc.song)]
    /\ sc' = [sc EXCEPT !.pc = "delete"]
    /\ UNCHANGED <<th, rt, renames, ig, pane>>

\* delete_song(name, 0)
ScenarioDelete ==
    /\ sc.pc = "delete"
    /\ Done("delete_song", sc.name, <<>>, 0, sc.song, delete_song(fs, sc.name, 0))
    /\ sc' = [sc EXCEPT !.pc = "end"]
    /\ UNCHANGED <<appended, th, rt, renames, ig, pane>>

NextScenario ==
    \/ ScenarioCreate
    \/ ScenarioAppend
    \/ ScenarioDelete

SpecScenario == InitScenario /\ [][NextScenario]_vars

\* the two lines of the song {title Blue, duration 125, path /music/blue.mp3}
BlueRecord == <<"#", "E", "X", "T", "I", "N", "F", ":", "1", "2", "5", ",", "B", "l", "u", "e", "\n", "/", "m", "u", "s", "i", "c", "/", "b", "l", "u", "e", ".", "m", "p", "3", "\n">>

\* C6: after create and the append of Blue the playlist's file is the header
\* line and Blue's two lines, and delete_song(name, 0) returns that file to
\* the header line alone. The playlist's file is taken to be whichever of the
\* two paths the operations use.
C6_CreateAppendDelete ==
    (sc.pc = "end" /\ sc.song = SongBlue) =>
        \E p \in {playlist_path(sc.name), m3u_path(sc.name)} :
            /\ last.pre[p] = HeaderLine \o BlueRecord
            /\ fs[p] = HeaderLine

----------------------------------------------------------------------------
(* add_song of src/src/app/playlist_management.rs: one thread per call *)

ConcPath == m3u_path(NameJ)

InitConc ==
    /\ fs \in { [p \in Paths |-> IF p = ConcPath THEN c ELSE NoFile] : c \in SeedsM3u }
    /\ last = NoOp
    /\ appended = [n \in ValidNames |-> [base |-> fs[m3u_path(n)], songs |-> <<>>]]
    /\ th = Idle
    /\ rt = NoRoundTrip
    /\ sc = NoScenario
    /\ renames = 0
    /\ pane = [pc |-> "off"]
    /\ ig = NoIngestion

\* add_song: thread::spawn of the closure; the caller returns at once
AddSong(t) ==
    /\ th[t].pc = "idle"
    /\ th' = [th EXCEPT ![t].pc = "from_path"]
    /\ UNCHANGED <<fs, last, appended, rt, sc, renames, ig, pane>>

\* add_song_recursively on a URL: Song::from_path asks yt-dlp for the title and
\* duration; a failure panics the thread ("Failed to parse song")
FromPath(t) ==
    /\ th[t].pc = "from_path"
    /\ \/ \E song \in AppendSongs : th' = [th EXCEPT ![t].pc = "open", ![t].song = song]
       \/ th' = [th EXCEPT ![t].pc = "panicked"]
    /\ UNCHANGED <<fs, last, appended, rt, sc, renames, ig, pane>>

\* one file operation of song.add_to_playlist(playlist) in thread t
AddToPlaylistStep(t) ==
    /\ AtpRunning(th[t].pc)
    /\ LET n == AtpStep(th[t].pc, fs[ConcPath], th[t].loc, th[t].song)
       IN  /\ fs' = [fs EXCEPT ![ConcPath] = n.content]
           /\ th' = [th EXCEPT ![t].pc = n.pc, ![t].loc = n.loc]
           /\ appended' = IF n.pc = "done"
                          THEN [appended EXCEPT ![NameJ].songs = Append(@, th[t].song)]
                          ELSE appended
    /\ UNCHANGED <<last, rt, sc, renames, ig, pane>>

\* add_to_playlist returned Ok: the thread sends Event::SongAdded and ends
SendEvent(t) ==
    /\ th[t].pc = "done"
    /\ th' = [th EXCEPT ![t].pc = "sent"]
    /\ UNCHANGED <<fs, last, appended, rt, sc, renames, ig, pane>>

\* add_to_playlist returned Err: unwrap_or_else panics the thread
Panic(t) ==
    /\ th[t].pc = "failed"
    /\ th' = [th EXCEPT ![t].pc = "panicked"]
    /\ UNCHANGED <<fs, last, appended, rt, sc, renames, ig, pane>>

NextConc ==
    \/ \E t \in Threads : AddSong(t)
    \/ \E t \in Threads : FromPath(t)
    \/ \E t \in Threads : AddToPlaylistStep(t)
    \/ \E t \in Threads : SendEvent(t)
    \/ \E t \in Threads : Panic(t)

SpecConc == InitConc /\ [][NextConc]_vars

\* the number of places in ls where the two lines of song's record stand
RecordCount(ls, song) ==
    Cardinality({ i \in 1..(Len(ls) - 1) : <<ls[i], ls[i + 1]>> = Lines(serialize(song)) })

\* the number of elements of the sequence s equal to x
Occurrences(s, x) == Cardinality({ i \in 1..Len(s) : s[i] = x })

\* C7: when every add_song thread has finished its append, the file has exactly
\* one header line and holds the record of every appended song once per append,
\* next to the records the file held before.
C7_ConcurrentAppendsSafe ==
    (\A t \in Threads : th[t].pc = "sent") =>
        LET ls == Lines(fs[ConcPath])
            base == IF appended[NameJ].base = NoFile THEN <<>> ELSE Lines(appended[NameJ].base)
        IN  /\ HeaderCount(ls) = 1
            /\ \A song \in AppendSongs :
                  RecordCount(ls, song) =
                      RecordCount(base, song) + Occurrences(appended[NameJ].songs, song)

----------------------------------------------------------------------------
(* Ingestion: add_song and add_song_recursively, in the two revisions      *)
(* src/tori/src/m3u/playlist_management.rs ("tori": validation, image skip, *)
(* thread::spawn commented out) and src/src/app/playlist_management.rs      *)
(* ("app": one thread per call)                                             *)

\* the characters of file names in byte order
ByteOrder == <<".", "/", "0", "1", "2", "3", "4", "5", "6", "7", "8", "9", ":", "a", "b", "c", "d", "e", "f", "g", "h", "i", "j", "k", "l", "m", "n", "o", "p", "q", "r", "s", "t", "u", "v", "w", "x", "y", "z">>

ByteRank(c) == CHOOSE i \in 1..Len(ByteOrder) : ByteOrder[i] = c

\* a <= b in the byte-wise lexicographic order of strings
RECURSIVE LexLeq(_, _)
LexLeq(a, b) ==
    IF a = <<>> THEN TRUE
    ELSE IF b = <<>> THEN FALSE
    ELSE IF Head(a) = Head(b) THEN LexLeq(Tail(a), Tail(b))
    ELSE ByteRank(Head(a)) < ByteRank(Head(b))

\* Vec::sort of a set of entries
RECURSIVE Sorted(_)
Sorted(S) ==
    IF S = {} THEN <<>>
    ELSE LET m == CHOOSE x \in S : \A y \in S : LexLeq(x, y)
         IN  <<m>> \o Sorted(S \ {m})

\* str::trim_end_matches('/')
RECURSIVE TrimEndSlashes(_)
TrimEndSlashes(s) ==
    IF s # <<>> /\ s[Len(s)] = "/" THEN TrimEndSlashes(SubSeq(s, 1, Len(s) - 1)) ELSE s

\* index (1-based) of the last occurrence of c in s at or before i, 0 when there is none
RECURSIVE LastIndexFrom(_, _, _)
LastIndexFrom(s, c, i) == IF i = 0 THEN 0 ELSE IF s[i] = c THEN i ELSE LastIndexFrom(s, c, i - 1)

\* str::rsplit('/').next(): what follows the last '/', the whole string when
\* there is none
LastSegment(s) == From(s, LastIndexFrom(s, "/", Len(s)))

\* the label cut without trim_end_matches('/')
EventLabel_untrimmed(song_path) == LastSegment(song_path)

\* the label of the SongAdded event: song_path.trim_end_matches('/').rsplit('/').next()
EventLabel(song_path) == LastSegment(TrimEndSlashes(song_path))

\* The directory tree the ingestion runs on: the entries of each directory
\* (fs::read_dir), the symlinks to directories, and the regular files; http://h
\* is the directory h of the directory "http:" of the working directory
DirM == <<"/", "m">>
DirA == <<"/", "m", "/", "a">>
DirP == <<"/", "p">>
DirD == <<"/", "p", "/", "d">>
LinkL == <<"/", "m", "/", "l">>
DirS == <<"/", "s">>
LinkK == <<"/", "s", "/", "k">>
DirH == <<"h", "t", "t", "p", ":", "/", "/", "h">>

DirEntries ==
    [d \in {DirM, DirA, DirP, DirD, DirS, DirH} |->
        IF d = DirM THEN {<<"b", ".", "m", "p", "3">>, <<"a">>, <<"l">>}
        ELSE IF d = DirA THEN {<<"z", ".", "m", "p", "3">>, <<"c", ".", "p", "n", "g">>}
        ELSE IF d = DirP THEN {<<"y", ".", "p", "n", "g">>, <<"d">>}
        ELSE IF d = DirS THEN {<<"k">>, <<"y", ".", "p", "n", "g">>}
        ELSE IF d = DirH THEN {<<"a">>, <<"b">>, <<"c", ".", "p", "n", "g">>}
        ELSE {<<"x", ".", "j", "p", "g">>}]

Files == {<<"/", "m", "/", "b", ".", "m", "p", "3">>, <<"/", "m", "/", "a", "/", "z", ".", "m", "p", "3">>, <<"/", "m", "/", "a", "/", "c", ".", "p", "n", "g">>, <<"/", "p", "/", "y", ".", "p", "n", "g">>, <<"/", "p", "/", "d", "/", "x", ".", "j", "p", "g">>, <<"/", "s", "/", "y", ".", "p", "n", "g">>, <<"h", "t", "t", "p", ":", "/", "/", "h", "/", "a">>, <<"h", "t", "t", "p", ":", "/", "/", "h", "/", "b">>, <<"h", "t", "t", "p", ":", "/", "/", "h", "/", "c", ".", "p", "n", "g">>}

\* the symlinks of the tree: /m/l points to /m/a, /s/k to /s itself
Links == {LinkL, LinkK}

\* Path::is_dir follows symlinks; a trailing '/' does not change the entry
IsDir(path) == TrimEndSlashes(path) \in DOMAIN DirEntries \cup Links

\* Path::is_symlink
IsSymlink(path) == TrimEndSlashes(path) \in Links

PathExists(path) == IsDir(path) \/ path \in Files

\* PathBuf::join of a directory and an entry name
JoinPath(dir, name) == (IF dir[Len(dir)] = "/" THEN dir ELSE dir \o <<"/">>) \o name

\* fs::read_dir(path) collected and sorted
SortedEntries(path) ==
    LET names == Sorted(DirEntries[TrimEndSlashes(path)])
    IN  [k \in 1..Len(names) |-> JoinPath(path, names[k])]

\* Path::extension: what follows the last '.' of the file name, when the name
\* has one that is not its first character
Extension(path) ==
    LET name == LastSegment(path)
        k == LastIndexFrom(name, ".", Len(name))
    IN  IF k <= 1 THEN <<>> ELSE From(name, k)

ImageExtensions == {<<"p", "n", "g">>, <<"j", "p", "g">>, <<"j", "p", "e", "g">>, <<"w", "e", "b", "p">>, <<"s", "v", "g">>}

\* image_file
image_file(path) == Extension(path) \in ImageExtensions

Schemes == {<<"h", "t", "t", "p", ":", "/", "/">>, <<"h", "t", "t", "p", "s", ":", "/", "/">>, <<"y", "t", "d", "l", ":", "/", "/">>}

\* surely_invalid_path that lets every source through
surely_invalid_path_never(path) == FALSE

\* surely_invalid_path: not a directory, not an existing path, not a URL
surely_invalid_path(path) ==
    /\ ~IsDir(path)
    /\ ~PathExists(path)
    /\ \A scheme \in Schemes : ~StartsWith(path, scheme)

\* the sources add_song is called with
Sources ==
    { DirM, <<"/", "p", "/">>, DirS, DirH, <<"/", "m", "/", "b", ".", "m", "p", "3">>, <<"h", "t", "t", "p", ":", "/", "/", "u", "/", "v">>, <<"h", "t", "t", "p", "s", ":", "/", "/", "w", "/", "t", "/">>, <<"y", "t", "d", "l", ":", "/", "/", "q">>, <<"n", "o", "p", "e">>, <<"f", "t", "p", ":", "/", "/", "x", "/", "y">> }

\* what yt-dlp --dump-json reports for a URL: a title and a duration
YtdlpOutputs == { [title |-> SongBlue.title, duration |-> 125], [title |-> SongPad.title, duration |-> 0] }

\* Song::from_path takes the URL branch
IsHttpUrl(path) == StartsWith(path, <<"h", "t", "t", "p", ":", "/", "/">>) \/ StartsWith(path, <<"h", "t", "t", "p", "s", ":", "/", "/">>)

Revisions == {"tori", "app"}

\* contents playlists/J.m3u is found with when add_song is called
SeedsIngest == { NoFile, <<>>, HeaderLine \o serialize(SongComma) }

InitIngest ==
    /\ fs \in { [p \in Paths |-> IF p = m3u_path(NameJ) THEN c ELSE NoFile] : c \in SeedsIngest }
    /\ last = NoOp
    /\ appended = [n \in ValidNames |-> [base |-> fs[m3u_path(n)], songs |-> <<>>]]
    /\ th = Idle
    /\ rt = NoRoundTrip
    /\ sc = NoScenario
    /\ renames = 0
    /\ pane = [pc |-> "off"]
    /\ ig \in { [rev |-> r, pc |-> "ready", caller |-> "ready", playlist |-> NameJ,
                 source |-> <<>>, stack |-> <<>>, visited |-> <<>>, song |-> SongBlue,
                 added |-> <<>>, probes |-> 0, errs |-> 0, channel |-> <<>>,
                 handled |-> <<>>, pre |-> fs] : r \in Revisions }

\* add_song of the tori revision with a source surely_invalid_path refuses:
\* notify_err and return
RejectSource ==
    /\ ig.pc = "ready" /\ ig.rev = "tori"
    /\ \E source \in Sources :
          /\ surely_invalid_path(source)
          /\ ig' = [ig EXCEPT !.pc = "rejected", !.caller = "returned", !.source = source,
                              !.errs = @ + 1, !.pre = fs]
    /\ UNCHANGED <<fs, last, appended, th, rt, sc, renames, pane>>

\* add_song of the tori revision with any other source: thread::spawn is
\* commented out, so the caller itself runs add_song_recursively
StartIngestion ==
    /\ ig.pc = "ready" /\ ig.rev = "tori"
    /\ \E source \in Sources :
          /\ ~surely_invalid_path(source)
          /\ ig' = [ig EXCEPT !.pc = "walk", !.caller = "in_add_song", !.source = source,
                              !.stack = <<source>>, !.pre = fs]
    /\ UNCHANGED <<fs, last, appended, th, rt, sc, renames, pane>>

\* add_song of the app revision: thread::spawn of the closure, and return
SpawnIngestion ==
    /\ ig.pc = "ready" /\ ig.rev = "app"
    /\ \E source \in Sources :
          ig' = [ig EXCEPT !.pc = "walk", !.caller = "returned", !.source = source,
                           !.stack = <<source>>, !.pre = fs]
    /\ UNCHANGED <<fs, last, appended, th, rt, sc, renames, pane>>

\* a panic that is caught, the event being sent all the same
Panicked_still_sends(g) ==
    [g EXCEPT !.pc = "panicked", !.caller = IF g.rev = "tori" THEN "panicked" ELSE @,
              !.channel = Append(@, [playlist |-> g.playlist, song |-> EventLabel(g.source)])]

\* a panic in add_song_recursively: it ends the thread that runs it, which in
\* the tori revision is the caller's
Panicked(g) ==
    [g EXCEPT !.pc = "panicked", !.caller = IF g.rev = "tori" THEN "panicked" ELSE @]

\* add_song_recursively on a directory that is not a symlink: read_dir, sort,
\* and recurse into each entry in that order
Descend ==
    /\ ig.pc = "walk" /\ ig.stack # <<>>
    /\ LET path == Head(ig.stack)
       IN  /\ IsDir(path) /\ ~IsSymlink(path)
           /\ ig' = [ig EXCEPT !.stack = SortedEntries(path) \o Tail(@),
                               !.visited = Append(@, path)]
    /\ UNCHANGED <<fs, last, appended, th, rt, sc, renames, pane>>

\* add_song_recursively of the tori revision on an image file: nothing is done
SkipImage ==
    /\ ig.pc = "walk" /\ ig.stack # <<>> /\ ig.rev = "tori"
    /\ LET path == Head(ig.stack)
       IN  /\ ~(IsDir(path) /\ ~IsSymlink(path))
           /\ image_file(path)
           /\ ig' = [ig EXCEPT !.stack = Tail(@), !.visited = Append(@, path)]
    /\ UNCHANGED <<fs, last, appended, th, rt, sc, renames, pane>>

\* the entry at the top of the stack is resolved into a song
Resolves(g) ==
    /\ g.pc = "walk" /\ g.stack # <<>>
    /\ ~(IsDir(Head(g.stack)) /\ ~IsSymlink(Head(g.stack)))
    /\ g.rev = "tori" => ~image_file(Head(g.stack))

\* Song::from_path on an http:// or https:// URL: Song::parse_ytdlp runs yt-dlp;
\* the song has its title and duration and the URL as path; a failure of
\* yt-dlp panics in add_song_recursively
ResolveUrl ==
    /\ Resolves(ig) /\ IsHttpUrl(Head(ig.stack))
    /\ LET path == Head(ig.stack)
           probed == [ig EXCEPT !.visited = Append(@, path), !.probes = @ + 1]
       IN  \/ \E o \in YtdlpOutputs :
                 ig' = [probed EXCEPT !.pc = "append", !.song = Song(o.title, o.duration, path)]
           \/ ig' = Panicked(probed)
    /\ UNCHANGED <<fs, last, appended, th, rt, sc, renames, pane>>

\* Song::from_path on anything else: todo!("parse local file") panics
ResolveLocal ==
    /\ Resolves(ig) /\ ~IsHttpUrl(Head(ig.stack))
    /\ ig' = Panicked([ig EXCEPT !.visited = Append(@, Head(ig.stack))])
    /\ UNCHANGED <<fs, last, appended, th, rt, sc, renames, pane>>

\* song.add_to_playlist(playlist_name); an Err panics in add_song_recursively
AppendResolved ==
    /\ ig.pc = "append"
    /\ LET path == m3u_path(ig.playlist)
           r == add_to_playlist(fs[path], ig.song)
       IN  IF r.res = "Ok"
           THEN /\ fs' = [fs EXCEPT ![path] = r.content]
                /\ ig' = [ig EXCEPT !.pc = "walk", !.stack = Tail(@), !.added = Append(@, ig.song)]
           ELSE /\ fs' = [fs EXCEPT ![path] = r.content]
                /\ ig' = Panicked(ig)
    /\ UNCHANGED <<last, appended, th, rt, sc, renames, pane>>

\* add_song_recursively has returned: the label is cut from the source and
\* Event::SongAdded is sent; in the tori revision add_song then returns
SendSongAdded ==
    /\ ig.pc = "walk" /\ ig.stack = <<>>
    /\ ig' = [ig EXCEPT !.pc = "done", !.caller = "returned",
                        !.channel = Append(@, [playlist |-> ig.playlist,
                                               song |-> EventLabel(ig.source)])]
    /\ UNCHANGED <<fs, last, appended, th, rt, sc, renames, pane>>

\* the primary thread takes the next event from the channel
ReceiveSongAdded ==
    /\ ig.caller = "returned" /\ ig.channel # <<>>
    /\ ig' = [ig EXCEPT !.channel = Tail(@), !.handled = Append(@, Head(ig.channel))]
    /\ UNCHANGED <<fs, last, appended, th, rt, sc, renames, pane>>

NextIngest ==
    \/ RejectSource
    \/ StartIngestion
    \/ SpawnIngestion
    \/ Descend
    \/ SkipImage
    \/ ResolveUrl
    \/ ResolveLocal
    \/ AppendResolved
    \/ SendSongAdded
    \/ ReceiveSongAdded

SpecIngest == InitIngest /\ [][NextIngest]_vars

\* the events this invocation has sent, received or not
Events(g) == g.handled \o g.channel

\* a source is plausible when it is an existing path or begins with one of the
\* URL schemes
Plausible(source) == PathExists(source) \/ \E scheme \in Schemes : StartsWith(source, scheme)

\* C14: add_song (tori revision) with a source that is neither an existing path
\* nor a string starting with http://, https:// or ytdl:// fails at once: the
\* call has returned with an error notification, no file is created or
\* modified, no entry is visited, no metadata probe is started and no
\* SongAdded event is sent or received.
C14_ImplausibleSourceRejected ==
    (ig.rev = "tori" /\ ig.pc # "ready" /\ ~Plausible(ig.source)) =>
        /\ ig.pc = "rejected"
        /\ ig.caller = "returned"
        /\ ig.errs = 1
        /\ fs = ig.pre
        /\ ig.visited = <<>>
        /\ ig.probes = 0
        /\ ig.added = <<>>
        /\ Events(ig) = <<>>

\* add_song refused a source with a scheme it does not know
C14_Witness ==
    /\ ig.rev = "tori"
    /\ ig.pc = "rejected"
    /\ ig.source = <<"f", "t", "p", ":", "/", "/", "x", "/", "y">>
    /\ fs = ig.pre

\* the source without its trailing '/' characters
Stripped(source) ==
    LET k == CHOOSE k \in 0..Len(source) :
                 /\ \A i \in (k + 1)..Len(source) : source[i] = "/"
                 /\ k = 0 \/ source[k] # "/"
    IN  SubSeq(source, 1, k)

\* the final '/'-separated segment of the source, trailing '/' stripped
FinalSegment(source) ==
    LET s == Stripped(source)
        j == CHOOSE j \in 0..Len(s) :
                 /\ \A i \in (j + 1)..Len(s) : s[i] # "/"
                 /\ j = 0 \/ s[j] = "/"
    IN  From(s, j)

\* C15: an add_song invocation never sends more than one SongAdded event; one
\* that completes has sent exactly one, carrying the playlist name and the
\* final '/'-separated segment of the source, trailing '/' stripped; and the
\* event is sent only when the traversal is over and every append has been made.
C15_OneEventPerInvocation ==
    /\ Len(Events(ig)) <= 1
    /\ ig.pc = "done" =>
          Events(ig) = <<[playlist |-> ig.playlist, song |-> FinalSegment(ig.source)]>>
    /\ Events(ig) # <<>> => ig.pc = "done" /\ ig.stack = <<>>

\* the invocation on a URL that ends in '/' completed: one song was appended
\* and the one event, labelled with the last segment, was received
C15_Witness ==
    /\ ig.pc = "done"
    /\ ig.source = <<"h", "t", "t", "p", "s", ":", "/", "/", "w", "/", "t", "/">>
    /\ Len(ig.added) = 1
    /\ ig.handled = <<[playlist |-> NameJ, song |-> <<"t">>]>>
    /\ ig.channel = <<>>

\* C16: add_song does not block its caller: while the caller is inside add_song
\* no entry has been visited, no metadata probe started and no song appended;
\* that work is done after the caller has returned.
C16_CallerNotBlocked ==
    ig.caller = "in_add_song" =>
        /\ ig.visited = <<>>
        /\ ig.probes = 0
        /\ ig.added = <<>>

\* the entries add_song_recursively is to be called on, depth-first, the
\* entries of each directory in sorted order, no symlink followed
RECURSIVE VisitOrder(_)
VisitOrder(stack) ==
    IF stack = <<>> THEN <<>>
    ELSE LET path == Head(stack)
         IN  IF IsDir(path) /\ ~IsSymlink(path)
             THEN <<path>> \o VisitOrder(SortedEntries(path) \o Tail(stack))
             ELSE <<path>> \o VisitOrder(Tail(stack))

\* a regular file that is not an image: an entry that becomes a song
IsSongFile(path) == path \in Files /\ ~image_file(path)

\* x is a prefix of y
IsPrefix(x, y) == Len(x) <= Len(y) /\ SubSeq(y, 1, Len(x)) = x

\* the run was ended by a failure at a URL entry: yt-dlp failed on it, or the
\* append of its song did
UrlEntryFailed(g) ==
    g.pc = "panicked" /\ g.visited # <<>> /\ IsHttpUrl(g.visited[Len(g.visited)])

\* C17: an add_song invocation (tori revision) on a directory visits the
\* entries depth-first, those of each directory in sorted order, and when it
\* has ended, no metadata probe having failed, the songs it appended are the
\* song files of the tree in exactly that order, so that the file it leaves is
\* determined by the tree.
C17_SortedDepthFirstAppends ==
    (ig.rev = "tori" /\ ig.pc \in {"done", "panicked"} /\ IsDir(ig.source) /\ ~UrlEntryFailed(ig)) =>
        /\ IsPrefix(ig.visited, VisitOrder(<<ig.source>>))
        /\ [k \in 1..Len(ig.added) |-> ig.added[k].path] =
              SelectSeq(VisitOrder(<<ig.source>>), IsSongFile)

\* a local path: a regular file of the tree that Song::from_path does not take
\* for a URL
IsLocalFile(path) == path \in Files /\ ~IsHttpUrl(path)

\* C21: an add_song invocation on an existing local file that is not an image
\* succeeds: when it has ended it has not panicked, and it has appended exactly
\* one song, whose path is the given path, whose title is the file name and
\* whose duration is zero, and the playlist file holds one more record, that
\* song's.
C21_LocalFileBecomesOneSong ==
    (ig.pc \in {"done", "panicked"} /\ IsLocalFile(ig.source) /\ ~image_file(ig.source)) =>
        /\ ig.pc = "done"
        /\ ig.added = <<Song(FinalSegment(ig.source), 0, ig.source)>>
        /\ fs[m3u_path(ig.playlist)] =
              add_to_playlist(ig.pre[m3u_path(ig.playlist)],
                              Song(FinalSegment(ig.source), 0, ig.source)).content

\* C22: a symlinked directory met during the traversal is skipped: the run does
\* not fail at it, no song with its path is appended, and nothing below it is
\* visited.
C22_SymlinkedDirectorySkipped ==
    \A k \in 1..Len(ig.visited) :
        (IsDir(ig.visited[k]) /\ IsSymlink(ig.visited[k])) =>
            /\ ~(ig.pc = "panicked" /\ k = Len(ig.visited))
            /\ \A j \in 1..Len(ig.added) : ig.added[j].path # ig.visited[k]
            /\ \A j \in 1..Len(ig.visited) :
                  ~IsPrefix(ig.visited[k] \o <<"/">>, ig.visited[j])

\* the records of the songs, one after the other
RECURSIVE Records(_)
Records(songs) ==
    IF songs = <<>> THEN <<>> ELSE serialize(Head(songs)) \o Records(Tail(songs))

\* the entries that come after the last visited one in visiting order
LaterEntries(g) ==
    LET order == VisitOrder(<<g.source>>)
    IN  {order[k] : k \in (Len(g.visited) + 1)..Len(order)}

\* C23: when an add_song invocation has failed at an entry (resolving or
\* appending it panicked), no SongAdded event has been sent for it, neither the
\* failed entry nor any entry that comes later in visiting order has been
\* appended, and the records appended before the failure are still in the
\* file, after what the file held before the invocation.
C23_AbortOnFirstError ==
    ig.pc = "panicked" =>
        LET path == m3u_path(ig.playlist)
            before == IF Exists(ig.pre, path) THEN ig.pre[path] ELSE <<>>
            paths == {ig.added[j].path : j \in 1..Len(ig.added)}
        IN  /\ Events(ig) = <<>>
            /\ paths \cap LaterEntries(ig) = {}
            /\ ig.visited[Len(ig.visited)] \notin paths
            /\ IF ig.added = <<>>
               THEN fs = ig.pre
               ELSE fs[path] \in {before \o Records(ig.added),
                                  HeaderLine \o before \o Records(ig.added)}

\* the run on the directory http://h appended the song of a, failed at b, and
\* c.png was still to come: the record of a is in the file
C23_Witness ==
    /\ ig.pc = "panicked"
    /\ ig.source = DirH
    /\ ig.visited = <<DirH, <<"h", "t", "t", "p", ":", "/", "/", "h", "/", "a">>, <<"h", "t", "t", "p", ":", "/", "/", "h", "/", "b">>>>
    /\ Len(ig.added) = 1
    /\ ig.added[1].path = <<"h", "t", "t", "p", ":", "/", "/", "h", "/", "a">>
    /\ <<"h", "t", "t", "p", ":", "/", "/", "h", "/", "c", ".", "p", "n", "g">> \in LaterEntries(ig)
    /\ fs # ig.pre

\* the number of songs the invocation appended for the entry
RecordsFor(g, entry) == Cardinality({j \in 1..Len(g.added) : g.added[j].path = entry})

\* the k-th visited entry is being worked on: its song is to be appended, or the
\* run stopped at it
InProgress(g, k) == k = Len(g.visited) /\ g.pc \in {"append", "panicked"}

\* the image half of C24: a visited entry that is not a directory and has an
\* image extension gets no record, and the run does not stop at it
ImagesSkipped(g) ==
    \A k \in 1..Len(g.visited) :
        (~IsDir(g.visited[k]) /\ image_file(g.visited[k])) =>
            /\ RecordsFor(g, g.visited[k]) = 0
            /\ ~InProgress(g, k)

\* C24: in an add_song invocation (tori revision) every visited entry that is
\* not a directory and has an image extension (png, jpg, jpeg, webp, svg) is
\* skipped: it gets no record and the run does not stop at it; every other
\* visited file or URL gets exactly one record once it has been worked on, and
\* the run stops at it only if yt-dlp or the append failed.
C24_ImagesSkippedOthersRecorded ==
    ig.rev = "tori" =>
        /\ ImagesSkipped(ig)
        /\ \A k \in 1..Len(ig.visited) :
              (~IsDir(ig.visited[k]) /\ ~image_file(ig.visited[k])) =>
                  IF InProgress(ig, k)
                  THEN ig.pc = "panicked" => IsHttpUrl(ig.visited[k])
                  ELSE RecordsFor(ig, ig.visited[k]) = 1

\* the last operation was one of the three positional edits of a playlist
PositionalEdit == last.op \in {"delete_song", "rename_song", "swap_song"}

\* C25: when delete_song, rename_song or swap_song fails, it has not opened the
\* file for writing and every file is byte for byte what it was before the
\* call; the failure is the read error of a missing file or the parse error of
\* the scan, and a call on a missing file always fails.
C25_FailedEditLeavesFile ==
    PositionalEdit =>
        /\ last.res # "Ok" =>
              /\ last.res \in {"IOError", "MalformedPlaylist"}
              /\ ~last.wrote
              /\ fs = last.pre
        /\ ~Exists(last.pre, playlist_path(last.name)) => last.res = "IOError"

\* rename_song at index 1 of a file whose second record has no path line: the
\* scan passed the first song, the parse of the second failed, the file is as
\* it was
C25_Witness ==
    /\ last.op = "rename_song"
    /\ last.index = 1
    /\ last.res = "MalformedPlaylist"
    /\ PreFile = HeaderLine \o serialize(SongBlue) \o RecordNoPath
    /\ PostFile = PreFile

----------------------------------------------------------------------------
(* The songs pane: src/src/app/browse_screen/songs.rs *)

\* the filter holds at most this many characters
MaxFilter == 3

\* the character U+00E9, which takes two bytes in UTF-8
EAcute == "e'"

\* the number of bytes of a character in a String
ByteLen(c) == IF c = EAcute THEN 2 ELSE 1

\* str::to_lowercase
to_lowercase(s) ==
    LET UpperLetters == <<"A", "B", "C", "D", "E", "F", "G", "H", "I", "J", "K", "L", "M", "N", "O", "P", "Q", "R", "S", "T", "U", "V", "W", "X", "Y", "Z">>
        LowerLetters == <<"a", "b", "c", "d", "e", "f", "g", "h", "i", "j", "k", "l", "m", "n", "o", "p", "q", "r", "s", "t", "u", "v", "w", "x", "y", "z">>
    IN  [k \in 1..Len(s) |->
            IF \E i \in 1..26 : UpperLetters[i] = s[k]
            THEN LowerLetters[CHOOSE i \in 1..26 : UpperLetters[i] = s[k]]
            ELSE s[k]]

\* str::contains with a string pattern
ContainsStr(s, t) == \E i \in 0..(Len(s) - Len(t)) : SubSeq(s, i + 1, i + Len(t)) = t

\* &self.filter[1..] does not panic: byte 1 is inside the string and on a
\* character boundary
SliceFrom1Valid(filter) == filter # <<>> /\ ByteLen(filter[1]) = 1

\* the closure refresh_shown filters with
FilterPredicate(filter, s) ==
    \/ filter = <<>>
    \/ ContainsStr(to_lowercase(s.title), to_lowercase(Tail(filter)))
    \/ ContainsStr(to_lowercase(s.path), to_lowercase(Tail(filter)))

\* FilteredList::filter: the positions, in songs, of the songs that pass, in
\* the order of songs
FilteredItems(songs, filter) ==
    SelectSeq([k \in 1..Len(songs) |-> k], LAMBDA k : FilterPredicate(filter, songs[k]))

\* FilteredList::filter: the selection after filtering (0 is none): the position
\* of the song that was selected when it is still shown; otherwise none, or
\* the first position of a view that is not empty
FilterSelections(old_items, old_selected, new_items) ==
    LET tracked == {j \in 1..Len(new_items) :
                       old_selected # 0 /\ new_items[j] = old_items[old_selected]}
    IN  IF tracked # {} THEN tracked
        ELSE IF new_items = <<>> THEN {0}
        ELSE {0, 1}

\* FilteredList::select_next: one step down, clamped at the end; from no
\* selection, none or the first
select_next(items, selected) ==
    IF items = <<>> THEN {0}
    ELSE IF selected = 0 THEN {0, 1}
    ELSE {IF selected < Len(items) THEN selected + 1 ELSE selected}

\* FilteredList::select_prev: one step up, clamped at the start; from no
\* selection, none or the first
select_prev(items, selected) ==
    IF items = <<>> THEN {0}
    ELSE IF selected = 0 THEN {0, 1}
    ELSE {IF selected > 1 THEN selected - 1 ELSE selected}

\* no key event has been handled since the pane was built
NoKey == [code |-> "none", ch |-> ""]

\* the key events: KeyCode::Char(c) for some characters c, and the other key
\* codes
Keys ==
    {[code |-> "Char", ch |-> c] : c \in {"/", "y", "G", "b", EAcute}}
    \cup {[code |-> k, ch |-> ""] : k \in {"Backspace", "Esc", "Enter", "Up", "Down", "Tab"}}

\* refresh_shown: the panes it can leave; the slice &self.filter[1..] is taken
\* when the closure is called on a song with a filter that is not empty, and
\* panics when it is not valid
refresh_shown(p) ==
    IF p.filter # <<>> /\ p.songs # <<>> /\ ~SliceFrom1Valid(p.filter)
    THEN {[p EXCEPT !.pc = "panicked"]}
    ELSE LET items == FilteredItems(p.songs, p.filter)
         IN  {[p EXCEPT !.items = items, !.selected = s] :
                 s \in FilterSelections(p.items, p.selected, items)}

\* SongsPane::from_playlist once the songs are parsed: an empty filter, a
\* default FilteredList, refresh_shown
NewPanes(songs) ==
    refresh_shown([pc |-> "on", songs |-> songs, items |-> <<>>, selected |-> 0,
                   filter |-> <<>>, key |-> NoKey, prev |-> <<>>, arm |-> "none",
                   effect |-> "none"])

\* handle_filter_key_event that leaves the character keys to the caller
handle_filter_key_event_leaves_chars(filter, key) ==
    IF key.code = "Backspace"
    THEN [filter |-> SubSeq(filter, 1, Len(filter) - 1), handled |-> TRUE]
    ELSE IF key.code = "Esc" THEN [filter |-> <<>>, handled |-> TRUE]
    ELSE [filter |-> filter, handled |-> FALSE]

\* handle_filter_key_event: the filter it leaves and the bool it returns
handle_filter_key_event(filter, key) ==
    IF key.code = "Char" THEN [filter |-> Append(filter, key.ch), handled |-> TRUE]
    ELSE IF key.code = "Backspace"
    THEN [filter |-> SubSeq(filter, 1, Len(filter) - 1), handled |-> TRUE]
    ELSE IF key.code = "Esc" THEN [filter |-> <<>>, handled |-> TRUE]
    ELSE [filter |-> filter, handled |-> FALSE]

\* SongsPane::mode
mode(p) == IF p.filter = <<>> THEN "Normal" ELSE "Insert"

\* handle_event on Terminal(Key(key)): the panes it can leave. `arm` is the
\* match arm that ran ("filter" when handle_filter_key_event took the key),
\* `effect` what was asked of mpv or of the clipboard, `prev` the filter before
HandleKeyEvent(p, key) ==
    LET f == handle_filter_key_event(p.filter, key)
        q == [p EXCEPT !.key = key, !.prev = p.filter, !.effect = "none"]
    IN  IF p.filter # <<>> /\ f.handled
        THEN {IF r.pc = "on" THEN [r EXCEPT !.arm = "filter"] ELSE r :
                 r \in refresh_shown([q EXCEPT !.filter = f.filter])}
        ELSE IF key.code = "Enter"
        THEN {[q EXCEPT !.arm = "Enter", !.effect = e] :
                 e \in IF q.selected # 0 THEN {"play", "error"} ELSE {"none"}}
        ELSE IF key = [code |-> "Char", ch |-> "y"]
        THEN {[q EXCEPT !.arm = "Char(y)", !.effect = e] :
                 e \in IF q.selected # 0 THEN {"yank", "error"} ELSE {"none"}}
        ELSE IF key = [code |-> "Char", ch |-> "G"]
        THEN {[q EXCEPT !.arm = "Char(G)",
                        !.selected = IF q.items # <<>> THEN Len(q.items) ELSE @]}
        ELSE IF key.code = "Up"
        THEN {[q EXCEPT !.arm = "Up", !.selected = s] : s \in select_prev(q.items, q.selected)}
        ELSE IF key.code = "Down"
        THEN {[q EXCEPT !.arm = "Down", !.selected = s] : s \in select_next(q.items, q.selected)}
        ELSE IF key = [code |-> "Char", ch |-> "/"]
        THEN {[q EXCEPT !.arm = "Char(/)", !.filter = <<"/">>]}
        ELSE {[q EXCEPT !.arm = "_"]}

\* the playlist files the pane is loaded from
PaneFiles == { <<>>, HeaderLine \o serialize(SongBlue) \o serialize(SongPad) \o serialize(SongComma) }

InitFilter ==
    /\ fs = NoFiles
    /\ last = NoOp
    /\ appended = NoAppends
    /\ th = Idle
    /\ rt = NoRoundTrip
    /\ sc = NoScenario
    /\ renames = 0
    /\ ig = NoIngestion
    /\ pane \in UNION {NewPanes(parse_m3u(c).songs) : c \in PaneFiles}

\* a key event reaches the pane
KeyEvent ==
    /\ pane.pc = "on"
    /\ \E key \in Keys :
          /\ (key.code = "Char" /\ pane.filter # <<>>) => Len(pane.filter) < MaxFilter
          /\ pane' \in HandleKeyEvent(pane, key)
    /\ UNCHANGED <<fs, last, appended, th, rt, sc, renames, ig>>

\* Command(SelectNext) or Command(SelectPrev) reaches the pane
SelectCommand ==
    /\ pane.pc = "on"
    /\ \E cmd \in {"SelectNext", "SelectPrev"} :
          \E s \in IF cmd = "SelectNext" THEN select_next(pane.items, pane.selected)
                   ELSE select_prev(pane.items, pane.selected) :
             pane' = [pane EXCEPT !.selected = s, !.key = NoKey, !.prev = pane.filter,
                                  !.arm = cmd, !.effect = "none"]
    /\ UNCHANGED <<fs, last, appended, th, rt, sc, renames, ig>>

\* a mouse scroll reaches the pane
MouseScroll ==
    /\ pane.pc = "on"
    /\ \E kind \in {"ScrollUp", "ScrollDown"} :
          \E s \in IF kind = "ScrollDown" THEN select_next(pane.items, pane.selected)
                   ELSE select_prev(pane.items, pane.selected) :
             pane' = [pane EXCEPT !.selected = s, !.key = NoKey, !.prev = pane.filter,
                                  !.arm = kind, !.effect = "none"]
    /\ UNCHANGED <<fs, last, appended, th, rt, sc, renames, ig>>

\* BrowseScreen::reload_songs: the pane is replaced by a new one
ReloadSongs ==
    /\ pane.pc = "on"
    /\ pane' \in NewPanes(pane.songs)
    /\ UNCHANGED <<fs, last, appended, th, rt, sc, renames, ig>>

NextFilter ==
    \/ KeyEvent
    \/ SelectCommand
    \/ MouseScroll
    \/ ReloadSongs

SpecFilter == InitFilter /\ [][NextFilter]_vars

\* C26: in the songs pane the filter is empty or begins with '/', and the slice
\* filter[1..] never panics; the mode is Insert exactly when the filter is not
\* empty; a character key that arrives while the filter is not empty is
\* appended to the filter by the filter handler and runs no command arm and has
\* no effect on the player or the clipboard; Backspace removes the last
\* character of a filter that is not empty, and Esc empties it, after which the
\* mode is Normal.
C26_FilterStateMachine ==
    /\ pane.pc = "on"
    /\ pane.filter = <<>> \/ pane.filter[1] = "/"
    /\ pane.filter # <<>> => SliceFrom1Valid(pane.filter)
    /\ mode(pane) = "Insert" <=> pane.filter # <<>>
    /\ pane.prev # <<>> =>
          /\ pane.key.code = "Char" =>
                /\ pane.filter = Append(pane.prev, pane.key.ch)
                /\ pane.arm = "filter"
                /\ pane.effect = "none"
          /\ pane.key.code = "Backspace" =>
                /\ pane.filter = SubSeq(pane.prev, 1, Len(pane.prev) - 1)
                /\ Len(pane.filter) = Len(pane.prev) - 1
          /\ pane.key.code = "Esc" => pane.filter = <<>> /\ mode(pane) = "Normal"

\* with the filter "/b" on a loaded playlist, the key y was appended to the
\* filter by the filter handler and nothing was yanked
C26_Witness ==
    /\ pane.key = [code |-> "Char", ch |-> "y"]
    /\ pane.prev = <<"/", "b">>
    /\ pane.filter = <<"/", "b", "y">>
    /\ pane.effect = "none"
    /\ pane.arm = "filter"
    /\ pane.songs # <<>>
    /\ mode(pane) = "Insert"

====
